---- MODULE Spec2Model ----
(***************************************************************************)
(* Model of src/app.py (XML Auto-Corrector): detect_and_decode,            *)
(* load_corrections, extract_all_order_numbers, add_customer_job_code and  *)
(* apply_corrections_to_xml.                                               *)
(*                                                                         *)
(* A text is a sequence of tokens.  Every XML tag the regular expressions  *)
(* of the program mention is one token (the string of the tag); every      *)
(* other character is a token of its own.  Only tag tokens contain '<'.    *)
(***************************************************************************)
EXTENDS Integers, Sequences, FiniteSets, TLC

VARIABLES
  pc,                       \* position in the run
  file_bytes,               \* the uploaded bytes
  xml_content,              \* the text worked on
  xml_encoding,             \* the encoding name detect_and_decode returned
  response,                 \* the HTTP response load_corrections gets
  corrections,              \* the normalized correction map
  order_numbers,            \* the list extract_all_order_numbers returned
  corrected_xml,            \* the running buffer of apply_corrections_to_xml
  all_applied_corrections,  \* its report
  order_idx,                \* its position in order_numbers
  job_code, status,         \* argument and outcome of add_customer_job_code
  arg_xml,                  \* the text the last call was given
  calls                     \* number of calls made

decodeVars == <<file_bytes, xml_encoding>>
pipelineVars ==
  <<response, corrections, order_numbers, corrected_xml, all_applied_corrections,
    order_idx>>
jobVars == <<job_code, status, arg_xml, calls>>
vars == <<pc, xml_content, decodeVars, pipelineVars, jobVars>>

----------------------------------------------------------------------------
(* Tokens *)

CJC_OPEN == "<CustomerJobCode>"
CJC_CLOSE == "</CustomerJobCode>"
CCN_OPEN == "<CostCenterName>"
CCN_CLOSE == "</CostCenterName>"
OID_OPEN == "<OrderId>"
OID_OPEN_LC == "<orderid>"
OID_CLOSE == "</OrderId>"
IDV_OPEN == "<IdValue>"
IDV_CLOSE == "</IdValue>"
ROOT_OPEN == "<Order>"
ROOT_CLOSE == "</Order>"
BACKSLASH == "\\"
NEWLINE == "\n"
SPACE == " "

\* the tokens that contain the character '<' (what [^<] excludes)
Tags ==
  {CJC_OPEN, CJC_CLOSE, CCN_OPEN, CCN_CLOSE, OID_OPEN, OID_OPEN_LC, OID_CLOSE,
   IDV_OPEN, IDV_CLOSE, ROOT_OPEN, ROOT_CLOSE}

Digits == {"0", "1", "2", "3", "4", "5", "6", "7", "8", "9"}
OctDigits == {"0", "1", "2", "3", "4", "5", "6", "7"}
Letters == {"A", "C", "I", "J", "K", "X", "n"}
Whitespace == {SPACE, NEWLINE}

\* all sequences over S of length at most n
SeqsUpTo(S, n) == UNION {[1..k -> S] : k \in 0..n}

\* `t in s` for a one-token needle
Contains(s, t) == \E i \in 1..Len(s) : s[i] = t

\* index of the first tag token of s at or after i, Len(s)+1 when there is none
NextTag(s, i) ==
  IF \E j \in i..Len(s) : s[j] \in Tags
    THEN CHOOSE j \in i..Len(s) : s[j] \in Tags /\ \A k \in i..(j-1) : s[k] \notin Tags
    ELSE Len(s) + 1

\* index of the first occurrence of token t in s at or after i, 0 when none
NextTok(s, i, t) ==
  IF \E j \in i..Len(s) : s[j] = t
    THEN CHOOSE j \in i..Len(s) : s[j] = t /\ \A k \in i..(j-1) : s[k] # t
    ELSE 0

----------------------------------------------------------------------------
(* re.sub replacement templates (lines 102, 109, 121): the job code is     *)
(* interpolated into the template, so re.sub reads its backslashes.        *)

IndentWidth == 8
Indent == [i \in 1..IndentWidth |-> SPACE]

GROUP1 == "{group 1}"
ERR_GROUP == "invalid group reference"
ERR_ESCAPE == "bad escape"
TemplateErrors == {ERR_GROUP, ERR_ESCAPE}

DigitVal(d) ==
  CASE d = "0" -> 0 [] d = "1" -> 1 [] d = "2" -> 2 [] d = "3" -> 3 [] d = "4" -> 4
    [] d = "5" -> 5 [] d = "6" -> 6 [] d = "7" -> 7 [] d = "8" -> 8 [] d = "9" -> 9

\* chr() of an octal escape, for the code points the job alphabet can spell
ChrOf(n) == IF n = 73 THEN "I" ELSE "?"

\* the template item of a reference to group k of a pattern with ngroups groups
GroupRef(k, ngroups) == IF k > ngroups THEN ERR_GROUP ELSE GROUP1

\* The items of the template text job[i..], as re.sub parses them: literal
\* tokens, GROUP1 for a group reference, and an error as the last item.  The
\* template continues with "</CustomerJobCode>" after the job code, so a
\* backslash that ends the job code escapes '<' and stays a literal backslash.
RECURSIVE ParseFrom(_, _, _)
ParseFrom(job, i, ngroups) ==
  IF i > Len(job) THEN <<>>
  ELSE IF job[i] # BACKSLASH THEN <<job[i]>> \o ParseFrom(job, i + 1, ngroups)
  ELSE IF i = Len(job) \/ job[i + 1] \in Tags
    THEN <<BACKSLASH>> \o ParseFrom(job, i + 1, ngroups)
  ELSE LET c == job[i + 1]
           d == IF i + 2 <= Len(job) THEN job[i + 2] ELSE "<"
           e == IF i + 3 <= Len(job) THEN job[i + 3] ELSE "<"
       IN  IF c = BACKSLASH THEN <<BACKSLASH>> \o ParseFrom(job, i + 2, ngroups)
           ELSE IF c \in Digits \ {"0"} THEN
             IF d \in Digits THEN
               IF c \in OctDigits /\ d \in OctDigits /\ e \in OctDigits
                 THEN LET n == 64 * DigitVal(c) + 8 * DigitVal(d) + DigitVal(e)
                      IN  IF n > 255 THEN <<ERR_ESCAPE>>
                          ELSE <<ChrOf(n)>> \o ParseFrom(job, i + 4, ngroups)
                 ELSE LET g == GroupRef(10 * DigitVal(c) + DigitVal(d), ngroups)
                      IN  IF g \in TemplateErrors THEN <<g>>
                          ELSE <<g>> \o ParseFrom(job, i + 3, ngroups)
             ELSE LET g == GroupRef(DigitVal(c), ngroups)
                  IN  IF g \in TemplateErrors THEN <<g>>
                      ELSE <<g>> \o ParseFrom(job, i + 2, ngroups)
           ELSE IF c \in Letters THEN
             IF c = "n" THEN <<NEWLINE>> \o ParseFrom(job, i + 2, ngroups)
             ELSE <<ERR_ESCAPE>>
           ELSE <<BACKSLASH, c>> \o ParseFrom(job, i + 2, ngroups)

ParseTemplate(job, ngroups) == ParseFrom(job, 1, ngroups)

TemplateFails(items) == Len(items) > 0 /\ items[Len(items)] \in TemplateErrors

\* the text a parsed template stands for, group 1 being the text g1
RECURSIVE Expand(_, _)
Expand(items, g1) ==
  IF items = <<>> THEN <<>>
  ELSE (IF Head(items) = GROUP1 THEN g1 ELSE <<Head(items)>>) \o Expand(Tail(items), g1)

----------------------------------------------------------------------------
(* add_customer_job_code *)

UPDATE_PATTERN == "<CustomerJobCode>[^<]*</CustomerJobCode>"
PATTERN == "(<CostCenterName>[^<]*</CostCenterName>)"
ORDER_PATTERN == "(<OrderId[^>]*>.*?</OrderId>)"

\* <open>[^<]*<close> matched at i: the index of its last token, else 0
ElementEnd(s, i, open, close) ==
  IF s[i] = open
    THEN LET j == NextTag(s, i + 1)
         IN  IF j <= Len(s) /\ s[j] = close THEN j ELSE 0
    ELSE 0

\* the pattern matched at i: the index of the last token of the match, else 0
MatchEnd(pat, s, i) ==
  CASE pat = UPDATE_PATTERN -> ElementEnd(s, i, CJC_OPEN, CJC_CLOSE)
    [] pat = PATTERN -> ElementEnd(s, i, CCN_OPEN, CCN_CLOSE)
    [] pat = ORDER_PATTERN -> IF s[i] = OID_OPEN THEN NextTok(s, i + 1, OID_CLOSE) ELSE 0

\* re.findall / re.search: the pattern matches somewhere
HasMatch(pat, s) == \E i \in 1..Len(s) : MatchEnd(pat, s, i) # 0

\* what one match m is replaced by
Replacement(pat, m, items) ==
  IF pat = UPDATE_PATTERN
    THEN <<CJC_OPEN>> \o Expand(items, <<>>) \o <<CJC_CLOSE>>
    ELSE m \o <<NEWLINE>> \o Indent \o <<CJC_OPEN>> \o Expand(items, m) \o <<CJC_CLOSE>>

\* re.sub: every non-overlapping match from position i on, left to right
RECURSIVE Sub(_, _, _, _)
Sub(pat, s, i, items) ==
  IF i > Len(s) THEN <<>>
  ELSE LET e == MatchEnd(pat, s, i)
       IN  IF e = 0 THEN <<s[i]>> \o Sub(pat, s, i + 1, items)
           ELSE Replacement(pat, SubSeq(s, i, e), items) \o Sub(pat, s, e + 1, items)

ErrorStatus(items) ==
  IF items[Len(items)] = ERR_GROUP THEN "erreur: invalid group reference"
  ELSE "erreur: bad escape"

\* TrySub, were the text assigned before the template is found to be bad
TrySub_KeepsPartial(pat, xml, job, ngroups, ok_status) ==
  LET items == ParseTemplate(job, ngroups)
  IN  IF TemplateFails(items)
        THEN [xml |-> Sub(pat, xml, 1, SubSeq(items, 1, Len(items) - 1)),
              status |-> ErrorStatus(items)]
        ELSE [xml |-> Sub(pat, xml, 1, items), status |-> ok_status]

\* re.sub(pat, template of job_code, xml_content) inside the try block
TrySub(pat, xml, job, ngroups, ok_status) ==
  LET items == ParseTemplate(job, ngroups)
  IN  IF TemplateFails(items) THEN [xml |-> xml, status |-> ErrorStatus(items)]
      ELSE [xml |-> Sub(pat, xml, 1, items), status |-> ok_status]

add_customer_job_code(xml, job) ==
  IF Contains(xml, CJC_OPEN) THEN TrySub(UPDATE_PATTERN, xml, job, 0, "mise_a_jour")
  ELSE IF HasMatch(PATTERN, xml) THEN TrySub(PATTERN, xml, job, 1, "ajout")
  ELSE IF HasMatch(ORDER_PATTERN, xml)
         THEN TrySub(ORDER_PATTERN, xml, job, 1, "ajout_alternatif")
  ELSE [xml |-> xml, status |-> "emplacement_non_trouve"]

----------------------------------------------------------------------------
(* Specification SpecJob: add_customer_job_code called repeatedly with one *)
(* job code on a running text.                                             *)

MaxDocLen == 4
MaxJobLen == 2
MaxCalls == 2

DocTokens == {CJC_OPEN, CJC_CLOSE, CCN_OPEN, CCN_CLOSE, OID_OPEN, OID_CLOSE, "X"}
JobTokens == {"J", "1", BACKSLASH, CJC_CLOSE}

NoDecode == file_bytes = <<>> /\ xml_encoding = "none"
NoPipeline ==
  /\ response = [status_code |-> 0, json |-> <<>>]
  /\ corrections = <<>>
  /\ order_numbers = <<>>
  /\ corrected_xml = <<>>
  /\ all_applied_corrections = <<>>
  /\ order_idx = 0
NoJob == job_code = <<>> /\ status = "none" /\ arg_xml = <<>> /\ calls = 0

InitJob ==
  /\ pc = "job"
  /\ NoDecode
  /\ NoPipeline
  /\ xml_content \in SeqsUpTo(DocTokens, MaxDocLen)
  /\ job_code \in SeqsUpTo(JobTokens, MaxJobLen)
  /\ status = "none"
  /\ arg_xml = <<>>
  /\ calls = 0

\* xml_content, status = add_customer_job_code(xml_content, job_code)
AddCustomerJobCode ==
  /\ pc = "job"
  /\ calls < MaxCalls
  /\ LET r == add_customer_job_code(xml_content, job_code)
     IN  /\ xml_content' = r.xml
         /\ status' = r.status
  /\ arg_xml' = xml_content
  /\ calls' = calls + 1
  /\ UNCHANGED <<pc, job_code, decodeVars, pipelineVars>>

NextJob == AddCustomerJobCode

SpecJob == InitJob /\ [][NextJob]_vars

----------------------------------------------------------------------------
(* Vocabulary of the claims about add_customer_job_code, stated on the     *)
(* texts themselves rather than by substitution.                           *)

SuccessStatuses == {"ajout", "mise_a_jour", "ajout_alternatif"}
ErrorStatuses == {"erreur: invalid group reference", "erreur: bad escape"}

\* s[i..j] is an element <open>text</close> whose text holds no markup
IsElement(s, i, j, open, close) ==
  /\ i < j
  /\ s[i] = open
  /\ s[j] = close
  /\ \A k \in (i + 1)..(j - 1) : s[k] \notin Tags

Elements(s, open, close) ==
  {p \in (1..Len(s)) \X (1..Len(s)) : IsElement(s, p[1], p[2], open, close)}

CjcElements(s) == Elements(s, CJC_OPEN, CJC_CLOSE)
CcnElements(s) == Elements(s, CCN_OPEN, CCN_CLOSE)

\* s[i..j] runs from an <OrderId> tag to the first </OrderId> after it
IsOrderIdElement(s, i, j) ==
  /\ i < j
  /\ s[i] = OID_OPEN
  /\ s[j] = OID_CLOSE
  /\ \A k \in (i + 1)..(j - 1) : s[k] # OID_CLOSE

OrderIdElements(s) ==
  {p \in (1..Len(s)) \X (1..Len(s)) : IsOrderIdElement(s, p[1], p[2])}

Ends(ps) == {p[2] : p \in ps}

\* newline, the 8-space indentation and <CustomerJobCode>v</CustomerJobCode>
InsertedTag(v) ==
  <<NEWLINE, SPACE, SPACE, SPACE, SPACE, SPACE, SPACE, SPACE, SPACE, CJC_OPEN>>
    \o v \o <<CJC_CLOSE>>

\* s[i..] with ins placed after every position of the set ends
RECURSIVE WithInsertions(_, _, _, _)
WithInsertions(s, i, ends, ins) ==
  IF i > Len(s) THEN <<>>
  ELSE <<s[i]>> \o (IF i \in ends THEN ins ELSE <<>>) \o WithInsertions(s, i + 1, ends, ins)

\* s without the text content of its CustomerJobCode elements
OutsideCjc(s) ==
  LET inside == {k \in 1..Len(s) : \E p \in CjcElements(s) : p[1] < k /\ k < p[2]}
      F[i \in 0..Len(s)] ==
        IF i = 0 THEN <<>>
        ELSE IF i \in inside THEN F[i - 1] ELSE Append(F[i - 1], s[i])
  IN  F[Len(s)]

\* C1: applying the same correction twice is idempotent: the second
\* application of add_customer_job_code with the same job code returns the
\* text of the first, and it does not insert another CustomerJobCode element.
C1_Idempotent ==
  calls = 2 =>
    /\ xml_content = arg_xml
    /\ Cardinality(CjcElements(xml_content)) = Cardinality(CjcElements(arg_xml))
    /\ status \notin {"ajout", "ajout_alternatif"}

\* C2: when the input holds a CustomerJobCode element, the outcome is
\* "mise_a_jour", every CustomerJobCode element of the result holds the job
\* code, there are as many such elements as before, and the text outside
\* their content is unchanged.
C2_UpdateInPlace ==
  (calls >= 1 /\ CjcElements(arg_xml) # {}) =>
    /\ status = "mise_a_jour"
    /\ Cardinality(CjcElements(xml_content)) = Cardinality(CjcElements(arg_xml))
    /\ \A p \in CjcElements(xml_content) :
         SubSeq(xml_content, p[1] + 1, p[2] - 1) = job_code
    /\ OutsideCjc(xml_content) = OutsideCjc(arg_xml)

\* C3: when the input holds no CustomerJobCode tag and at least one
\* CostCenterName element, the outcome is "ajout" and the result is the input
\* with newline, indentation and <CustomerJobCode>v</CustomerJobCode> after the
\* closing tag of every CostCenterName element, and no other change.
C3_InsertAfterCostCenterName ==
  (calls >= 1 /\ ~Contains(arg_xml, CJC_OPEN) /\ CcnElements(arg_xml) # {}) =>
    /\ status = "ajout"
    /\ xml_content =
         WithInsertions(arg_xml, 1, Ends(CcnElements(arg_xml)), InsertedTag(job_code))

\* C9: when the input holds neither a CustomerJobCode tag nor a
\* CostCenterName element but an OrderId element, the outcome is
\* "ajout_alternatif" and <CustomerJobCode>v</CustomerJobCode> is placed after
\* the closing tag of the OrderId element; the OrderId anchor is never used
\* when a CostCenterName element exists.
C9_InsertAfterOrderId ==
  /\ (calls >= 1 /\ ~Contains(arg_xml, CJC_OPEN) /\ CcnElements(arg_xml) = {}
        /\ OrderIdElements(arg_xml) # {}) =>
       /\ status = "ajout_alternatif"
       /\ xml_content =
            WithInsertions(arg_xml, 1, Ends(OrderIdElements(arg_xml)),
                           InsertedTag(job_code))
  /\ (calls >= 1 /\ status = "ajout_alternatif") => CcnElements(arg_xml) = {}

\* C4: an outcome that is not a success outcome is "emplacement_non_trouve"
\* (the input has neither a CustomerJobCode tag, nor a CostCenterName element,
\* nor an OrderId element) or "erreur: ...", and the returned text is exactly
\* the input text.
C4_FailureReturnsInput ==
  (calls >= 1 /\ status \notin SuccessStatuses) =>
    /\ xml_content = arg_xml
    /\ status \in ErrorStatuses \cup {"emplacement_non_trouve"}
    /\ status = "emplacement_non_trouve" =>
         /\ ~Contains(arg_xml, CJC_OPEN)
         /\ CcnElements(arg_xml) = {}
         /\ OrderIdElements(arg_xml) = {}

\* an exception was caught on a text that holds an element to substitute
C4_Witness ==
  /\ calls >= 1
  /\ status \in ErrorStatuses
  /\ CjcElements(arg_xml) \cup CcnElements(arg_xml) \cup OrderIdElements(arg_xml) # {}

----------------------------------------------------------------------------
(* extract_all_order_numbers *)

PadWidth == 6

\* str.isdigit()
IsDigit(t) == Len(t) > 0 /\ \A i \in 1..Len(t) : t[i] \in Digits

\* str.zfill(width)
ZFill(t, width) ==
  IF Len(t) >= width THEN t ELSE [i \in 1..(width - Len(t)) |-> "0"] \o t

\* Normalize, were the zfill left out
Normalize_NoPad(t) == t

\* lines 68-69, 83-84: zero-pad a short numeric string
Normalize(t) == IF IsDigit(t) /\ Len(t) < PadWidth THEN ZFill(t, PadWidth) ELSE t

\* str.strip()
RECURSIVE LStrip(_)
LStrip(t) == IF t # <<>> /\ Head(t) \in Whitespace THEN LStrip(Tail(t)) ELSE t
RECURSIVE RStrip(_)
RStrip(t) ==
  IF t # <<>> /\ t[Len(t)] \in Whitespace THEN RStrip(SubSeq(t, 1, Len(t) - 1)) ELSE t
Strip(t) == RStrip(LStrip(t))

\* the tokens <OrderId[^>]*> and <IdValue>, </IdValue> match under re.IGNORECASE
OrderIdOpenTags == {OID_OPEN, OID_OPEN_LC}

\* index of the first token at or after i that is no whitespace (\s*)
RECURSIVE SkipSpace(_, _)
SkipSpace(s, i) == IF i <= Len(s) /\ s[i] \in Whitespace THEN SkipSpace(s, i + 1) ELSE i

\* <OrderId[^>]*>\s*<IdValue>([^<]+)</IdValue> matched at i:
\* [from |-> first token of the group, to |-> index of </IdValue>], to = 0 if no match
IdValueMatch(s, i) ==
  IF s[i] \notin OrderIdOpenTags THEN [from |-> 0, to |-> 0]
  ELSE LET j == SkipSpace(s, i + 1)
           k == NextTag(s, j + 1)
       IN  IF j <= Len(s) /\ s[j] = IDV_OPEN /\ k <= Len(s) /\ s[k] = IDV_CLOSE /\ k > j + 1
             THEN [from |-> j + 1, to |-> k]
             ELSE [from |-> 0, to |-> 0]

\* re.findall(pattern, xml_content, re.IGNORECASE): the groups, left to right
RECURSIVE FindAll(_, _)
FindAll(s, i) ==
  IF i > Len(s) THEN <<>>
  ELSE LET m == IdValueMatch(s, i)
       IN  IF m.to = 0 THEN FindAll(s, i + 1)
           ELSE <<SubSeq(s, m.from, m.to - 1)>> \o FindAll(s, m.to + 1)

\* lines 65-71 and 81-86: strip, normalize and append each value not yet listed
RECURSIVE Collect(_, _)
Collect(matches, acc) ==
  IF matches = <<>> THEN acc
  ELSE LET order_id == Normalize(Strip(Head(matches)))
       IN  Collect(Tail(matches),
                   IF \E n \in 1..Len(acc) : acc[n] = order_id
                     THEN acc ELSE Append(acc, order_id))

OpenTags == {CJC_OPEN, CCN_OPEN, OID_OPEN, OID_OPEN_LC, IDV_OPEN, ROOT_OPEN}

\* the closing tag a tag token needs
CloseTagOf(t) ==
  CASE t = CJC_OPEN -> CJC_CLOSE
    [] t = CCN_OPEN -> CCN_CLOSE
    [] t = OID_OPEN -> OID_CLOSE
    [] t = OID_OPEN_LC -> "</orderid>"
    [] t = IDV_OPEN -> IDV_CLOSE
    [] t = ROOT_OPEN -> ROOT_CLOSE

\* ET.fromstring(xml_content) succeeds from token i on, the open elements being
\* stack and roots root elements being closed already: one root element, tags
\* nested and matched, nothing but whitespace outside the root
RECURSIVE WellFormedFrom(_, _, _, _)
WellFormedFrom(s, i, stack, roots) ==
  IF i > Len(s) THEN stack = <<>> /\ roots = 1
  ELSE IF s[i] \in OpenTags
    THEN (stack # <<>> \/ roots = 0) /\ WellFormedFrom(s, i + 1, <<s[i]>> \o stack, roots)
  ELSE IF s[i] \in Tags
    THEN /\ stack # <<>>
         /\ s[i] = CloseTagOf(Head(stack))
         /\ WellFormedFrom(s, i + 1, Tail(stack),
                           IF Len(stack) = 1 THEN roots + 1 ELSE roots)
  ELSE (stack # <<>> \/ s[i] \in Whitespace) /\ WellFormedFrom(s, i + 1, stack, roots)

WellFormed(s) == WellFormedFrom(s, 1, <<>>, 0)

\* in a well-formed text, the index of the tag closing the element opened at i
CloseIndex(s, i) ==
  LET depth(j) == Cardinality({k \in i..j : s[k] \in OpenTags})
                    - Cardinality({k \in i..j : s[k] \in Tags \ OpenTags})
  IN  CHOOSE j \in (i + 1)..Len(s) : depth(j) = 0 /\ \A k \in i..(j - 1) : depth(k) > 0

\* lines 77-80: for the element opened at i whose tag contains 'OrderId', the
\* text of find('.//IdValue'), its first IdValue descendant; <<>> if none or empty
FallbackText(s, i) ==
  LET j == CloseIndex(s, i)
      ks == {k \in (i + 1)..(j - 1) : s[k] = IDV_OPEN}
  IN  IF ks = {} THEN <<>>
      ELSE LET k == CHOOSE k \in ks : \A l \in ks : k <= l
           IN  SubSeq(s, k + 1, NextTag(s, k + 1) - 1)

\* lines 76-86: the texts found for the elements of root.iter(), in document order
RECURSIVE FallbackTexts(_, _)
FallbackTexts(s, i) ==
  IF i > Len(s) THEN <<>>
  ELSE IF s[i] = OID_OPEN /\ FallbackText(s, i) # <<>>
    THEN <<FallbackText(s, i)>> \o FallbackTexts(s, i + 1)
  ELSE FallbackTexts(s, i + 1)

extract_all_order_numbers(xml) ==
  LET order_numbers1 == Collect(FindAll(xml, 1), <<>>)
  IN  IF order_numbers1 # <<>> THEN order_numbers1
      ELSE IF WellFormed(xml) THEN Collect(FallbackTexts(xml, 1), <<>>)
      ELSE <<>>

----------------------------------------------------------------------------
(* Specification SpecExtract: extract_all_order_numbers on a text made of  *)
(* at most MaxPieces pieces.                                               *)

MaxPieces == 4

OrderIdPiece(open, id) == <<open, IDV_OPEN>> \o id \o <<IDV_CLOSE, OID_CLOSE>>

ExtractPieces ==
  { OrderIdPiece(OID_OPEN, <<"7">>),
    OrderIdPiece(OID_OPEN, <<"0", "0", "0", "0", "0", "7">>),
    <<OID_OPEN, NEWLINE, IDV_OPEN, SPACE, "8", NEWLINE, IDV_CLOSE, OID_CLOSE>>,
    OrderIdPiece(OID_OPEN_LC, <<"A", "7">>),
    <<OID_OPEN, "A", IDV_OPEN, "0", "0", "0", "0", "0", "0", "8", IDV_CLOSE, OID_CLOSE>>,
    <<OID_OPEN>>, <<OID_CLOSE>>, <<IDV_OPEN>>, <<IDV_CLOSE>>,
    <<ROOT_OPEN>>, <<ROOT_CLOSE>>, <<SPACE>>, <<"7">> }

RECURSIVE Concat(_)
Concat(ps) == IF ps = <<>> THEN <<>> ELSE Head(ps) \o Concat(Tail(ps))

InitExtract ==
  /\ pc = "extract"
  /\ NoDecode
  /\ NoPipeline
  /\ NoJob
  /\ \E ps \in SeqsUpTo(ExtractPieces, MaxPieces) : xml_content = Concat(ps)

\* order_numbers = extract_all_order_numbers(xml_content)
ExtractAllOrderNumbers ==
  /\ pc = "extract"
  /\ order_numbers' = extract_all_order_numbers(xml_content)
  /\ pc' = "extracted"
  /\ UNCHANGED <<xml_content, decodeVars, jobVars, response, corrections, corrected_xml,
                 all_applied_corrections, order_idx>>

NextExtract == ExtractAllOrderNumbers

SpecExtract == InitExtract /\ [][NextExtract]_vars

----------------------------------------------------------------------------
(* Vocabulary of the claim about extract_all_order_numbers *)

\* s[i] opens an OrderId, s[j] is the <IdValue> that follows it (whitespace
\* apart) and s[k] the </IdValue> closing its non-empty, markup-free text
IsIdPair(s, i, j, k) ==
  /\ i < j /\ j + 1 < k
  /\ s[i] \in {OID_OPEN, OID_OPEN_LC}
  /\ \A m \in (i + 1)..(j - 1) : s[m] \in Whitespace
  /\ s[j] = IDV_OPEN
  /\ \A m \in (j + 1)..(k - 1) : s[m] \notin Tags
  /\ s[k] = IDV_CLOSE

IdPairs(s) ==
  LET is == {i \in 1..Len(s) : s[i] \in {OID_OPEN, OID_OPEN_LC}}
      js == {j \in 1..Len(s) : s[j] = IDV_OPEN}
      ks == {k \in 1..Len(s) : s[k] = IDV_CLOSE}
  IN  {p \in is \X js \X ks : IsIdPair(s, p[1], p[2], p[3])}

\* r is t without its leading and trailing whitespace
IsTrimOf(r, t) ==
  \E a \in 1..(Len(t) + 1) : \E b \in 0..Len(t) :
    /\ r = SubSeq(t, a, b)
    /\ \A m \in 1..(a - 1) : t[m] \in Whitespace
    /\ \A m \in (b + 1)..Len(t) : t[m] \in Whitespace
    /\ r # <<>> => r[1] \notin Whitespace /\ r[Len(r)] \notin Whitespace

\* u, left-padded with zeros to 6 characters when it is purely numeric and shorter
Padded(u) ==
  IF u # <<>> /\ (\A m \in 1..Len(u) : u[m] \in Digits) /\ Len(u) < 6
    THEN [m \in 1..6 |-> IF m <= 6 - Len(u) THEN "0" ELSE u[m - (6 - Len(u))]]
    ELSE u

SubSeqs(t) == {SubSeq(t, a, b) : a \in 1..(Len(t) + 1), b \in 0..Len(t)}

\* r is the trimmed and normalized form of the raw text t
IsIdentifierOf(r, t) == \E u \in SubSeqs(t) : IsTrimOf(u, t) /\ r = Padded(u)

IdentifierOf(t) == Padded(CHOOSE u \in SubSeqs(t) : IsTrimOf(u, t))

PairText(s, p) == SubSeq(s, p[2] + 1, p[3] - 1)

\* the position of the first pair of s whose identifier is r
FirstPairOf(s, r) ==
  LET is == {p[1] : p \in {q \in IdPairs(s) : IsIdentifierOf(r, PairText(s, q))}}
  IN  CHOOSE i \in is : \A l \in is : i <= l

\* the markup-free texts that follow an <IdValue> tag of s
IdValueTexts(s) ==
  {SubSeq(s, j + 1, k - 1) : j \in {j \in 1..Len(s) : s[j] = IDV_OPEN},
                             k \in {k \in 1..(Len(s) + 1) : k = NextTag(s, k)}}

----------------------------------------------------------------------------
(* detect_and_decode: bytes are integers 0..255, a decoded text is the     *)
(* sequence of its code points.                                            *)

DECODE_ERROR == <<-1>>

IsCont(b) == 128 <= b /\ b <= 191

\* the length of the UTF-8 sequence that starts at b[i], 0 when it is invalid
Utf8Len(b, i) ==
  LET c == b[i]
      c1 == IF i + 1 <= Len(b) THEN b[i + 1] ELSE 0
      c2 == IF i + 2 <= Len(b) THEN b[i + 2] ELSE 0
      c3 == IF i + 3 <= Len(b) THEN b[i + 3] ELSE 0
  IN  IF c < 128 THEN 1
      ELSE IF 194 <= c /\ c <= 223 THEN (IF IsCont(c1) THEN 2 ELSE 0)
      ELSE IF 224 <= c /\ c <= 239 THEN
        (IF /\ IsCont(c1) /\ IsCont(c2)
            /\ (c = 224 => c1 >= 160)
            /\ (c = 237 => c1 <= 159)
           THEN 3 ELSE 0)
      ELSE IF 240 <= c /\ c <= 244 THEN
        (IF /\ IsCont(c1) /\ IsCont(c2) /\ IsCont(c3)
            /\ (c = 240 => c1 >= 144)
            /\ (c = 244 => c1 <= 143)
           THEN 4 ELSE 0)
      ELSE 0

\* the code point of the valid UTF-8 sequence of length n at b[i]
Utf8CodePoint(b, i, n) ==
  CASE n = 1 -> b[i]
    [] n = 2 -> (b[i] - 192) * 64 + (b[i + 1] - 128)
    [] n = 3 -> (b[i] - 224) * 4096 + (b[i + 1] - 128) * 64 + (b[i + 2] - 128)
    [] n = 4 -> (b[i] - 240) * 262144 + (b[i + 1] - 128) * 4096
                  + (b[i + 2] - 128) * 64 + (b[i + 3] - 128)

\* bytes.decode('utf-8') from byte i on: the code points, or DECODE_ERROR
RECURSIVE Utf8From(_, _)
Utf8From(b, i) ==
  IF i > Len(b) THEN <<>>
  ELSE LET n == Utf8Len(b, i)
       IN  IF n = 0 THEN DECODE_ERROR
           ELSE LET rest == Utf8From(b, i + n)
                IN  IF rest = DECODE_ERROR THEN DECODE_ERROR
                    ELSE <<Utf8CodePoint(b, i, n)>> \o rest

\* bytes.decode('utf-8-sig'): a leading EF BB BF is dropped
Utf8SigDecode(b) ==
  IF Len(b) >= 3 /\ b[1] = 239 /\ b[2] = 187 /\ b[3] = 191 THEN Utf8From(b, 4)
  ELSE Utf8From(b, 1)

\* the code point cp1252 gives a byte, -1 for the five undefined bytes
Cp1252CodePoint(c) ==
  CASE c = 128 -> 8364 [] c = 129 -> -1 [] c = 130 -> 8218 [] c = 131 -> 402
    [] c = 132 -> 8222 [] c = 133 -> 8230 [] c = 134 -> 8224 [] c = 135 -> 8225
    [] c = 136 -> 710 [] c = 137 -> 8240 [] c = 138 -> 352 [] c = 139 -> 8249
    [] c = 140 -> 338 [] c = 141 -> -1 [] c = 142 -> 381 [] c = 143 -> -1
    [] c = 144 -> -1 [] c = 145 -> 8216 [] c = 146 -> 8217 [] c = 147 -> 8220
    [] c = 148 -> 8221 [] c = 149 -> 8226 [] c = 150 -> 8211 [] c = 151 -> 8212
    [] c = 152 -> 732 [] c = 153 -> 8482 [] c = 154 -> 353 [] c = 155 -> 8250
    [] c = 156 -> 339 [] c = 157 -> -1 [] c = 158 -> 382 [] c = 159 -> 376
    [] OTHER -> c

Cp1252Decode(b) ==
  IF \E i \in 1..Len(b) : Cp1252CodePoint(b[i]) = -1 THEN DECODE_ERROR
  ELSE [i \in 1..Len(b) |-> Cp1252CodePoint(b[i])]

\* file_bytes.decode(encoding)
Decode(b, encoding) ==
  CASE encoding = "utf-8" -> Utf8From(b, 1)
    [] encoding = "utf-8-sig" -> Utf8SigDecode(b)
    [] encoding = "iso-8859-1" -> b
    [] encoding = "cp1252" -> Cp1252Decode(b)
    [] encoding = "latin1" -> b

\* the number of bytes of the invalid sequence at b[i] that one U+FFFD
\* replaces: the lead byte and the continuation bytes that are valid after it
Utf8BadLen(b, i) ==
  LET c == b[i]
      c1 == IF i + 1 <= Len(b) THEN b[i + 1] ELSE 0
      c2 == IF i + 2 <= Len(b) THEN b[i + 2] ELSE 0
      ok1 == /\ IsCont(c1)
             /\ (c = 224 => c1 >= 160) /\ (c = 237 => c1 <= 159)
             /\ (c = 240 => c1 >= 144) /\ (c = 244 => c1 <= 143)
  IN  IF 224 <= c /\ c <= 239 THEN (IF ok1 THEN 2 ELSE 1)
      ELSE IF 240 <= c /\ c <= 244 THEN (IF ok1 THEN (IF IsCont(c2) THEN 3 ELSE 2) ELSE 1)
      ELSE 1

\* file_bytes.decode('utf-8', errors='replace')
RECURSIVE Utf8Replace(_, _)
Utf8Replace(b, i) ==
  IF i > Len(b) THEN <<>>
  ELSE LET n == Utf8Len(b, i)
       IN  IF n = 0 THEN <<65533>> \o Utf8Replace(b, i + Utf8BadLen(b, i))
           ELSE <<Utf8CodePoint(b, i, n)>> \o Utf8Replace(b, i + n)

encodings == <<"utf-8", "utf-8-sig", "iso-8859-1", "cp1252", "latin1">>

\* the loop of lines 19-24 from encodings[n] on, then lines 26-27
RECURSIVE TryEncodings(_, _)
TryEncodings(b, n) ==
  IF n > Len(encodings)
    THEN [content |-> Utf8Replace(b, 1), encoding |-> "utf-8-with-errors"]
  ELSE IF Decode(b, encodings[n]) # DECODE_ERROR
    THEN [content |-> Decode(b, encodings[n]), encoding |-> encodings[n]]
  ELSE TryEncodings(b, n + 1)

detect_and_decode(b) == TryEncodings(b, 1)

----------------------------------------------------------------------------
(* Specification SpecDecode: detect_and_decode on an uploaded buffer *)

MaxBytes == 3

\* 'A'; e-acute in ISO-8859-1 and Windows-1252; the euro sign and an undefined
\* byte of Windows-1252; the UTF-8 bytes of e-acute; the UTF-8 signature
FileBytes == {65, 233, 128, 129, 195, 169, 239, 187, 191}

InitDecode ==
  /\ pc = "upload"
  /\ file_bytes \in SeqsUpTo(FileBytes, MaxBytes)
  /\ xml_content = <<>>
  /\ xml_encoding = "none"
  /\ NoPipeline
  /\ NoJob

\* xml_content, xml_encoding = detect_and_decode(xml_file.read())
DetectAndDecode ==
  /\ pc = "upload"
  /\ LET r == detect_and_decode(file_bytes)
     IN  /\ xml_content' = r.content
         /\ xml_encoding' = r.encoding
  /\ pc' = "decoded"
  /\ UNCHANGED <<file_bytes, pipelineVars, jobVars>>

NextDecode == DetectAndDecode

SpecDecode == InitDecode /\ [][NextDecode]_vars

\* C7: a buffer that is Windows-1252 encoded and is not valid UTF-8 is
\* returned decoded as Windows-1252, with the encoding name "cp1252".
C7_Cp1252Detected ==
  (/\ pc = "decoded"
   /\ Cp1252Decode(file_bytes) # DECODE_ERROR
   /\ Utf8From(file_bytes, 1) = DECODE_ERROR) =>
    /\ xml_encoding = "cp1252"
    /\ xml_content = Cp1252Decode(file_bytes)

----------------------------------------------------------------------------
(* load_corrections and apply_corrections_to_xml.  A dict is the sequence  *)
(* of its <<key, value>> items in insertion order.                         *)

DictHas(d, k) == \E i \in 1..Len(d) : d[i][1] = k
DictGet(d, k) == d[CHOOSE i \in 1..Len(d) : d[i][1] = k][2]
\* d[k] = v
DictSet(d, k, v) ==
  IF DictHas(d, k)
    THEN [i \in 1..Len(d) |-> IF d[i][1] = k THEN <<k, v>> ELSE d[i]]
    ELSE Append(d, <<k, v>>)

\* NormalizeKey, were the keys kept as the file spells them
NormalizeKey_Raw(order_id) == order_id

\* lines 43-46
NormalizeKey(order_id) ==
  IF order_id # <<>> /\ IsDigit(order_id) /\ Len(order_id) < PadWidth
    THEN ZFill(order_id, PadWidth)
    ELSE order_id

\* lines 40-47: the loop over corrections.items()
RECURSIVE NormalizeItems(_, _)
NormalizeItems(items, normalized_corrections) ==
  IF items = <<>> THEN normalized_corrections
  ELSE NormalizeItems(Tail(items),
         DictSet(normalized_corrections, NormalizeKey(Head(items)[1]), Head(items)[2]))

HTTP_OK == 200

\* lines 32-54: any answer but 200 and any exception give the empty map
load_corrections(resp) ==
  IF resp.status_code = HTTP_OK THEN NormalizeItems(resp.json, <<>>) ELSE <<>>

\* status.replace('_', ' ')
ReplaceUnderscores(st) ==
  CASE st = "ajout" -> "ajout"
    [] st = "mise_a_jour" -> "mise a jour"
    [] st = "ajout_alternatif" -> "ajout alternatif"
    [] OTHER -> st

\* ReportEntry, were the value written in the failure line too
ReportEntry_ValueInFailure(order_number, value, st) ==
  IF st \in {"ajout", "mise_a_jour", "ajout_alternatif"}
    THEN <<"Commande ">> \o order_number \o <<" - ", "CustomerJobCode", ": ">> \o value
           \o <<" (", ReplaceUnderscores(st), ")">>
    ELSE <<"Commande ">> \o order_number \o <<" - ", "CustomerJobCode", ": ">> \o value
           \o <<" ", "ÉCHEC", " (", st, ")">>

\* lines 142-149: the report line, as the pieces its f-string concatenates
ReportEntry(order_number, value, st) ==
  IF st \in {"ajout", "mise_a_jour", "ajout_alternatif"}
    THEN <<"Commande ">> \o order_number \o <<" - ", "CustomerJobCode", ": ">> \o value
           \o <<" (", ReplaceUnderscores(st), ")">>
    ELSE <<"Commande ">> \o order_number
           \o <<" - ", "CustomerJobCode", ": ", "ÉCHEC", " (", st, ")">>

\* lines 139-149: the loop over order_corrections.items(), acc holding the
\* running text, the report and the last call of add_customer_job_code
RECURSIVE ApplyFields(_, _, _)
ApplyFields(fields, order_number, acc) ==
  IF fields = <<>> THEN acc
  ELSE LET field == Head(fields)[1]
           value == Head(fields)[2]
       IN  IF field = "CustomerJobCode"
             THEN LET r == add_customer_job_code(acc.xml, value)
                  IN  ApplyFields(Tail(fields), order_number,
                        [xml |-> r.xml,
                         report |-> Append(acc.report,
                                           ReportEntry(order_number, value, r.status)),
                         job_code |-> value, status |-> r.status, arg_xml |-> acc.xml,
                         calls |-> acc.calls + 1])
             ELSE ApplyFields(Tail(fields), order_number, acc)

----------------------------------------------------------------------------
(* Specification Spec: one run of main() on a decoded document: load the   *)
(* corrections, extract the order numbers, press the button, apply.        *)

MaxSections == 3
MaxEntries == 2

Sections ==
  { OrderIdPiece(OID_OPEN, <<"7">>),
    OrderIdPiece(OID_OPEN, <<"8">>),
    <<OID_OPEN_LC, IDV_OPEN, "8", IDV_CLOSE>>,
    <<CCN_OPEN, "X", CCN_CLOSE>>,
    <<CJC_OPEN, "X", CJC_CLOSE>> }

RawKeys == {<<"7">>, <<"0", "0", "0", "0", "0", "7">>, <<"8">>}

RawData ==
  { <<<<"CustomerJobCode", <<"J", "4">>>>>>,
    <<<<"CustomerJobCode", <<"K">>>>>>,
    <<<<"CustomerJobCode", <<BACKSLASH, "1">>>>>>,
    <<<<"CostCenterCode", <<"C">>>>>> }

\* the JSON objects of at most MaxEntries entries: distinct keys, in file order
RawMaps ==
  {m \in SeqsUpTo(RawKeys \X RawData, MaxEntries) :
     \A a, b \in 1..Len(m) : a # b => m[a][1] # m[b][1]}

Init ==
  /\ pc = "start"
  /\ NoDecode
  /\ NoJob
  /\ \E ps \in SeqsUpTo(Sections, MaxSections) : xml_content = Concat(ps)
  /\ response \in [status_code : {HTTP_OK, 404}, json : RawMaps]
  /\ corrections = <<>>
  /\ order_numbers = <<>>
  /\ corrected_xml = <<>>
  /\ all_applied_corrections = <<>>
  /\ order_idx = 0

\* line 164: corrections = load_corrections()
LoadCorrections ==
  /\ pc = "start"
  /\ corrections' = load_corrections(response)
  /\ pc' = "loaded"
  /\ UNCHANGED <<xml_content, decodeVars, jobVars, response, order_numbers, corrected_xml,
                 all_applied_corrections, order_idx>>

\* lines 196-209: extract the order numbers; the button is offered when one
\* of them has corrections
ExtractOrderNumbers ==
  /\ pc = "loaded"
  /\ order_numbers' = extract_all_order_numbers(xml_content)
  /\ pc' = IF \E n \in 1..Len(order_numbers') : DictHas(corrections, order_numbers'[n])
             THEN "button" ELSE "done"
  /\ UNCHANGED <<xml_content, decodeVars, jobVars, response, corrections, corrected_xml,
                 all_applied_corrections, order_idx>>

\* lines 222-225, 132-133: the button calls apply_corrections_to_xml
ApplyCorrectionsToXml ==
  /\ pc = "button"
  /\ corrected_xml' = xml_content
  /\ all_applied_corrections' = <<>>
  /\ order_idx' = 1
  /\ pc' = "apply"
  /\ UNCHANGED <<xml_content, decodeVars, jobVars, response, corrections, order_numbers>>

\* lines 135-150: one iteration of the loop over order_numbers
ApplyOrder ==
  /\ pc = "apply"
  /\ order_idx <= Len(order_numbers)
  /\ LET order_number == order_numbers[order_idx]
         acc == [xml |-> corrected_xml, report |-> all_applied_corrections,
                 job_code |-> job_code, status |-> status, arg_xml |-> arg_xml,
                 calls |-> calls]
         r == IF DictHas(corrections, order_number)
                THEN ApplyFields(DictGet(corrections, order_number), order_number, acc)
                ELSE acc
     IN  /\ corrected_xml' = r.xml
         /\ all_applied_corrections' = r.report
         /\ job_code' = r.job_code
         /\ status' = r.status
         /\ arg_xml' = r.arg_xml
         /\ calls' = r.calls
  /\ order_idx' = order_idx + 1
  /\ UNCHANGED <<pc, xml_content, decodeVars, response, corrections, order_numbers>>

\* line 152: return corrected_xml, all_applied_corrections
ApplyReturn ==
  /\ pc = "apply"
  /\ order_idx > Len(order_numbers)
  /\ pc' = "applied"
  /\ UNCHANGED <<xml_content, decodeVars, jobVars, pipelineVars>>

Next ==
  \/ LoadCorrections
  \/ ExtractOrderNumbers
  \/ ApplyCorrectionsToXml
  \/ ApplyOrder
  \/ ApplyReturn

Spec == Init /\ [][Next]_vars

----------------------------------------------------------------------------
(* Vocabulary of the claims about the pipeline *)

\* a occurs in b as a contiguous run
IsSubSeq(a, b) == \E i \in 0..(Len(b) - Len(a)) : SubSeq(b, i + 1, i + Len(a)) = a

\* the fields of a correction entry hold CustomerJobCode with value v
HasJobCode(data, v) == \E f \in 1..Len(data) : data[f] = <<"CustomerJobCode", v>>

\* a job code of letters and digits only, as "JOB42"
IsPlainJobCode(v) == \A i \in 1..Len(v) : v[i] \in Letters \cup Digits

\* the report line names order n
NamesOrder(entry, n) == IsSubSeq(<<"Commande ">> \o n \o <<" - ">>, entry)

Finished == pc \in {"applied", "done"}

\* C6: keys of the correction map and identifiers of the document are
\* normalized by the same zero-pad rule before they are compared: when a key
\* of the JSON object and an IdValue of the document have the same normal
\* form n (and no later key has), and the key carries a CustomerJobCode value
\* v, the corrections are applied and the report has an entry naming n; when
\* v is a plain code, this is the only application, and the document has a
\* CostCenterName element and no CustomerJobCode tag, the output is the
\* document with <CustomerJobCode>v</CustomerJobCode> inserted after
\* CostCenterName.
C6_NormalizedKeysMatch ==
  (Finished /\ response.status_code = 200) =>
    \A p \in IdPairs(xml_content) : \A i \in 1..Len(response.json) :
      \A v \in {d[2] : d \in {response.json[i][2][f] : f \in 1..Len(response.json[i][2])}} :
        LET n == IdentifierOf(PairText(xml_content, p))
            k == response.json[i][1]
        IN  (/\ Padded(k) = n
             /\ \A j \in (i + 1)..Len(response.json) : Padded(response.json[j][1]) # n
             /\ HasJobCode(response.json[i][2], v)) =>
              /\ pc = "applied"
              /\ \E e \in 1..Len(all_applied_corrections) :
                   NamesOrder(all_applied_corrections[e], n)
              /\ (/\ IsPlainJobCode(v)
                  /\ calls = 1
                  /\ ~Contains(xml_content, CJC_OPEN)
                  /\ CcnElements(xml_content) # {}) =>
                   /\ corrected_xml =
                        WithInsertions(xml_content, 1, Ends(CcnElements(xml_content)),
                                       InsertedTag(v))
                   /\ Contains(all_applied_corrections[1], "ajout")

\* the document holds IdValue 7, the map the key "000007"
C6_Witness ==
  /\ pc = "applied"
  /\ response.json = <<<<<<"0", "0", "0", "0", "0", "7">>, <<<<"CustomerJobCode", <<"J", "4">>>>>>>>>>
  /\ \E p \in IdPairs(xml_content) : PairText(xml_content, p) = <<"7">>
  /\ CcnElements(xml_content) # {}
  /\ IsSubSeq(<<CCN_CLOSE, NEWLINE>>, corrected_xml)
  /\ IsSubSeq(<<CJC_OPEN, "J", "4", CJC_CLOSE>>, corrected_xml)
  /\ Len(all_applied_corrections) = 1
  /\ NamesOrder(all_applied_corrections[1], <<"0", "0", "0", "0", "0", "7">>)

\* the order number has a CustomerJobCode correction in the normalized map
IsApplicable(o) ==
  /\ DictHas(corrections, o)
  /\ \E v \in {d[2] : d \in {DictGet(corrections, o)[f] : f \in 1..Len(DictGet(corrections, o))}} :
       HasJobCode(DictGet(corrections, o), v)

JobCodeOf(o) ==
  LET data == DictGet(corrections, o)
  IN  data[CHOOSE f \in 1..Len(data) : data[f][1] = "CustomerJobCode"][2]

\* the applicable order numbers the loop has gone through, in list order
AppliedOrders == SelectSeq(SubSeq(order_numbers, 1, order_idx - 1), IsApplicable)

SuccessTexts == {"ajout", "mise a jour", "ajout alternatif"}
FailureStatuses == ErrorStatuses \cup {"emplacement_non_trouve"}

\* the report line embeds some outcome
EmbedsOutcome(entry) == \E i \in 1..Len(entry) : entry[i] \in SuccessTexts \cup FailureStatuses

\* the report line embeds the outcome st, as written or with spaces for underscores
EmbedsStatus(entry, st) ==
  \/ Contains(entry, st)
  \/ st = "mise_a_jour" /\ Contains(entry, "mise a jour")
  \/ st = "ajout_alternatif" /\ Contains(entry, "ajout alternatif")

\* C8 as stated: one report entry per application, in identifier-list order,
\* each embedding the order identifier, the field name, the correction value
\* and the outcome, for success and failure outcomes alike.
C8_EveryEntryEmbedsValue ==
  pc \in {"apply", "applied"} =>
    /\ Len(all_applied_corrections) = Len(AppliedOrders)
    /\ \A m \in 1..Len(AppliedOrders) :
         LET e == all_applied_corrections[m]
             o == AppliedOrders[m]
         IN  /\ NamesOrder(e, o)
             /\ Contains(e, "CustomerJobCode")
             /\ IsSubSeq(JobCodeOf(o), e)
             /\ EmbedsOutcome(e)
    /\ Len(AppliedOrders) > 0 =>
         EmbedsStatus(all_applied_corrections[Len(AppliedOrders)], status)

\* C8 amended: one report entry per application, in identifier-list order,
\* each embedding the order identifier, the field name and the outcome; an
\* entry of a success outcome embeds the correction value, an entry of a
\* failure outcome reads "Commande <id> - CustomerJobCode: ÉCHEC (<outcome>)",
\* with the word ÉCHEC where a success entry has the value.
C8_ReportEntries ==
  pc \in {"apply", "applied"} =>
    /\ Len(all_applied_corrections) = Len(AppliedOrders)
    /\ \A m \in 1..Len(AppliedOrders) :
         LET e == all_applied_corrections[m]
             o == AppliedOrders[m]
         IN  /\ NamesOrder(e, o)
             /\ Contains(e, "CustomerJobCode")
             /\ EmbedsOutcome(e)
             /\ IF \E i \in 1..Len(e) : e[i] \in SuccessTexts
                  THEN IsSubSeq(<<": ">> \o JobCodeOf(o) \o <<" (">>, e)
                  ELSE \E st \in FailureStatuses :
                         e = <<"Commande ">> \o o
                               \o <<" - ", "CustomerJobCode", ": ", "ÉCHEC", " (", st, ")">>
    /\ Len(AppliedOrders) > 0 =>
         LET e == all_applied_corrections[Len(AppliedOrders)]
         IN  /\ EmbedsStatus(e, status)
             /\ status \in SuccessStatuses <=> ~Contains(e, "ÉCHEC")

\* two applications, the first a success and the second a failure
C8_Witness ==
  /\ pc = "applied"
  /\ Len(AppliedOrders) = 2
  /\ Len(all_applied_corrections) = 2
  /\ ~Contains(all_applied_corrections[1], "ÉCHEC")
  /\ Contains(all_applied_corrections[2], "ÉCHEC")
  /\ status \in ErrorStatuses

\* C10: identifiers are processed in list order on one running buffer: when
\* the document has an anchor and no CustomerJobCode tag and its two
\* identifiers a then b carry the corrections va and vb, the report has two
\* entries (a inserted, then b updated) and every CustomerJobCode element of
\* the final text holds vb, none holds va.
C10_SecondUpdatesFirst ==
  (/\ pc = "applied"
   /\ ~Contains(xml_content, CJC_OPEN)
   /\ CcnElements(xml_content) \cup OrderIdElements(xml_content) # {}
   /\ Len(order_numbers) = 2
   /\ IsApplicable(order_numbers[1])
   /\ IsApplicable(order_numbers[2])
   /\ JobCodeOf(order_numbers[1]) # JobCodeOf(order_numbers[2])) =>
    LET va == JobCodeOf(order_numbers[1])
        vb == JobCodeOf(order_numbers[2])
        out == corrected_xml
    IN  /\ Len(all_applied_corrections) = 2
        /\ NamesOrder(all_applied_corrections[1], order_numbers[1])
        /\ \/ Contains(all_applied_corrections[1], "ajout")
           \/ Contains(all_applied_corrections[1], "ajout alternatif")
        /\ NamesOrder(all_applied_corrections[2], order_numbers[2])
        /\ Contains(all_applied_corrections[2], "mise a jour")
        /\ Contains(out, CJC_OPEN)
        /\ \A i \in 1..Len(out) :
             out[i] = CJC_OPEN =>
               SubSeq(out, i + 1, i + Len(vb) + 1) = vb \o <<CJC_CLOSE>>
        /\ ~IsSubSeq(<<CJC_OPEN>> \o va \o <<CJC_CLOSE>>, out)

====
